---------------------------- MODULE Spec2Model ----------------------------
(***************************************************************************)
(* Electrolyte PC-SAFT parameter handling (src/src/epcsaft/parameters.rs). *)
(*                                                                         *)
(* Conventions of the model:                                               *)
(*  - Option<T> is a sequence: None is << >>, Some(v) is << v >>.          *)
(*  - Arrays (Vec, Array1, Array2) are functions over 0..len-1, so that    *)
(*    component indices are the source's zero-based indices.               *)
(*  - f64 quantities are fixed-point integers in units of 1/ONE.           *)
(*  - A component's display name is a sequence of tokens; a substring      *)
(*    match of the marker is the occurrence of the marker token.           *)
(***************************************************************************)
EXTENDS Integers, Sequences, FiniteSets, TLC

VARIABLES
    pure_records,    \* from_records argument: Vec<PureRecord<ElectrolytePcSaftRecord>>
    binary_records,  \* from_records argument: Option<Array2<ElectrolytePcSaftBinaryRecord>>
    pc,              \* "input" before from_records ran, then "built" or "failed";
                     \* "segments" before from_segments ran, then "aggregated";
                     \* "record" before fmt ran, then "displayed"
    params,          \* the ElectrolytePcSaftParameters built (None until then)
    panic,           \* the panic that ended from_records (None if none)
    query,           \* the last query evaluated on params (None if none)
    segments,        \* from_segments argument: Option of the list of (segment, count)
    aggregated,      \* the record from_segments returned, once it ran
    binary_record,   \* the binary record handed to Display::fmt, if any
    text             \* what fmt wrote, once it ran

vars == <<pure_records, binary_records, pc, params, panic, query,
          segments, aggregated, binary_record, text>>

---------------------------------------------------------------------------
(* Bounds of the model *)

\* largest number of components in the coefficient-overwrite specification
MaxNKij == 2
\* largest number of binary records that differ from the default record
MaxOverrides == 1
\* largest number of components in the permittivity specification
MaxNPerm == 2
\* largest number of experimental permittivity points of one component
MaxPoints == 2
\* largest number of components in the classification specification
MaxNCharge == 3
\* largest number of components in the entropy-scaling specification
MaxNEntropy == 2
\* largest number of components in the sigma_t specification
MaxNSigma == 3
\* largest number of components in the hs_diameter specification
MaxNHs == 2
\* largest number of components in the polar-moment specification
MaxNPolar == 2
\* largest number of components in the combining-rule specification
MaxNMix == 3
\* largest number of components in the to_markdown specification
MaxNMarkdown == 3
\* largest number of k_ij coefficients of a displayed binary record
MaxKijDisplay == 4
\* largest number of entries of a segment list
MaxSegments == 3
\* largest count of a segment in a segment list
MaxCount == 2

---------------------------------------------------------------------------
(* Option and array helpers *)

None == << >>

Some(v) == << v >>

IsSome(o) == o # << >>

IsNone(o) == o = << >>

Unwrap(o) == o[1]

UnwrapOr(o, d) == IF IsSome(o) THEN o[1] ELSE d

\* number of elements of an array (a function over 0..len-1)
ALen(a) == Cardinality(DOMAIN a)

\* the arrays of length 0..maxLen over the set S
Arrays(S, maxLen) == UNION {[0..(k - 1) -> S] : k \in 0..maxLen}

\* iter().enumerate().filter_map(|(i, x)| pred.then_some(i)).collect():
\* the indices of S in ascending order, as an array
CollectIndices(S) ==
    [k \in 0..(Cardinality(S) - 1) |->
        CHOOSE i \in S : Cardinality({j \in S : j < i}) = k]

\* f64::abs
Abs(x) == IF x < 0 THEN -x ELSE x

---------------------------------------------------------------------------
(* Fixed-point arithmetic standing for f64 *)

\* one unit of a fixed-point quantity (1.0)
ONE == 10000

\* 2^q
RECURSIVE Pow2(_)
Pow2(q) == IF q = 0 THEN 1 ELSE 2 * Pow2(q - 1)

\* the Taylor series of exp(-r) for 0 <= r < ln 2, term by term:
\* term_k = term_(k-1) * (-r) / k
RECURSIVE ExpSeries(_, _, _, _)
ExpSeries(r, k, term, acc) ==
    IF term = 0 \/ k > 12 THEN acc
    ELSE LET next == -((term * r) \div (ONE * k))
         IN  ExpSeries(r, k + 1, next, acc + next)

\* f64::exp of a non-positive argument -x (x >= 0 in fixed point):
\* exp(-x) = 2^-q * exp(-r) with x = q ln 2 + r
ExpNeg(x) ==
    LET ln2 == 6931
        q == x \div ln2
        r == x % ln2
    IN  IF q > 20 THEN 0 ELSE ExpSeries(r, 1, ONE, ONE) \div Pow2(q)

---------------------------------------------------------------------------
(* Records: ElectrolytePcSaftRecord, PureRecord, ElectrolytePcSaftBinaryRecord, *)
(* PermittivityRecord                                                           *)

\* the reserved marker of temperature-dependent diameters in a display name
SigmaTMarker == "sigma_t"

\* String::contains on a tokenised name
Contains(name, token) == \E p \in 1..Len(name) : name[p] = token

\* PermittivityRecord::PerturbationTheory of one component
PerturbationTheory(ds, ps, ci) ==
    [kind |-> "PerturbationTheory",
     dipole_scaling |-> ds,
     polarizability_scaling |-> ps,
     correlation_integral_parameter |-> ci]

\* PermittivityRecord::ExperimentalData
ExperimentalData(data) == [kind |-> "ExperimentalData", data |-> data]

\* ElectrolytePcSaftRecord of butane (m = 2.3316, sigma = 3.7086, epsilon_k = 222.88)
\* with every optional field absent
PlainModelRecord ==
    [m |-> 23316, sigma |-> 37086, epsilon_k |-> 2228800,
     mu |-> None, q |-> None, association_record |-> None,
     viscosity |-> None, diffusion |-> None, thermal_conductivity |-> None,
     z |-> None, permittivity_record |-> None]

\* PureRecord<ElectrolytePcSaftRecord>
PureRecord(name, molarweight, model_record) ==
    [identifier |-> [name |-> name],
     molarweight |-> molarweight,
     model_record |-> model_record]

\* ElectrolytePcSaftBinaryRecord
BinaryRecord(k_ij, association) == [k_ij |-> k_ij, association |-> association]

\* #[derive(Default)] of ElectrolytePcSaftBinaryRecord: no coefficients, no association
DefaultBinaryRecord == BinaryRecord(<< >>, None)

\* the index pairs [[i, j]] of an Array2 of shape (rows, cols)
Indices2(rows, cols) == (0..(rows - 1)) \X (0..(cols - 1))

\* Array2<T>: its shape and its elements by [[i, j]]
Array2(rows, cols, elems) == [dim |-> <<rows, cols>>, at |-> elems]

\* Vec::push
Push(a, v) == [k \in 0..ALen(a) |-> IF k < ALen(a) THEN a[k] ELSE v]

---------------------------------------------------------------------------
(* Parameter::from_records, step by step *)

\* number of coefficients of one k_ij vector of the parameter set
KijLen == 4

\* z[i] = r.z.unwrap_or(0.0)
ChargeArray(pure) ==
    [i \in DOMAIN pure |-> UnwrapOr(pure[i].model_record.z, 0)]

\* sigma[i] = r.sigma
SigmaArray(pure) == [i \in DOMAIN pure |-> pure[i].model_record.sigma]

\* epsilon_k[i] = r.epsilon_k
EpsilonKArray(pure) == [i \in DOMAIN pure |-> pure[i].model_record.epsilon_k]

\* m[i] = r.m
MArray(pure) == [i \in DOMAIN pure |-> pure[i].model_record.m]

\* mutant: the filter of ionic_comp without abs()
IsIonicPositive(zi) == zi > 0

\* the filter of ionic_comp
IsIonic(zi) == Abs(zi) > 0

\* the filter of solvent_comp
IsSolvent(zi) == Abs(zi) = 0

IonicComp(z) == CollectIndices({i \in DOMAIN z : IsIonic(z[i])})

SolventComp(z) == CollectIndices({i \in DOMAIN z : IsSolvent(z[i])})

\* bool_sigma_t[i] = 1 iff the name (or "unknown") contains the marker
BoolSigmaT(record) ==
    IF Contains(UnwrapOr(record.identifier.name, <<"unknown">>), SigmaTMarker)
    THEN 1 ELSE 0

SigmaTComp(pure) == CollectIndices({i \in DOMAIN pure : BoolSigmaT(pure[i]) = 1})

\* mutant: the length check is off by one
KijTooLongOffByOne(temp_kij) == ALen(temp_kij) > KijLen + 1

\* temp_kij.len() > 4
KijTooLong(temp_kij) == ALen(temp_kij) > KijLen

\* the pairs of the double loop, and their order (i outer, j inner)
Pairs(n) == (0..(n - 1)) \X (0..(n - 1))

PairBefore(a, b) == a[1] < b[1] \/ (a[1] = b[1] /\ a[2] < b[2])

\* the panic of the overwrite loop: the first pair, in loop order, whose
\* record has too many coefficients
KijPanic(binary, n) ==
    LET bad == {ij \in Pairs(n) : KijTooLong(binary.at[ij].k_ij)}
    IN  IF bad = {} THEN None
        ELSE LET ij == CHOOSE a \in bad : \A b \in bad : a = b \/ PairBefore(a, b)
             IN  Some([msg |-> "more than 4 k_ij coefficients", args |-> ij])

\* mutant: only the first coefficient is copied
KijOverwriteFirstOnly(temp_kij) ==
    [k \in 0..(KijLen - 1) |-> IF k = 0 /\ ALen(temp_kij) > 0 THEN temp_kij[0] ELSE 0]

\* k_ij[[i, j]][k] = temp_kij[k] for k < temp_kij.len(), over vec![0., 0., 0., 0.]
KijOverwrite(temp_kij) ==
    [k \in 0..(KijLen - 1) |-> IF k < ALen(temp_kij) THEN temp_kij[k] ELSE 0]

\* the self-pair of an ionic component: k_ij[0] = 1.0, k_ij[1..4] = 0.0
KijIonicSelf == [k \in 0..(KijLen - 1) |-> IF k = 0 THEN ONE ELSE 0]

\* the k_ij matrix of a build whose overwrite loop did not panic
KijMatrix(binary, n, ionic_comp) ==
    IF IsNone(binary)
    THEN Array2(n, n, [ij \in Indices2(n, n) |-> [k \in 0..(KijLen - 1) |-> 0]])
    ELSE Array2(n, n, [ij \in Indices2(n, n) |->
            IF ij[1] = ij[2] /\ (\E a \in DOMAIN ionic_comp : ionic_comp[a] = ij[1])
            THEN KijIonicSelf
            ELSE KijOverwrite(Unwrap(binary).at[ij].k_ij)])

\* viscosity.iter().any(|v| v.is_none())
AnyNone(coefficients) == \E i \in DOMAIN coefficients : IsNone(coefficients[i])

\* the coefficient matrix of one entropy-scaling family: column i holds
\* component i's coefficients
CoefficientMatrix(coefficients, rows) ==
    IF AnyNone(coefficients) THEN None
    ELSE Some(Array2(rows, ALen(coefficients),
                     [rc \in Indices2(rows, ALen(coefficients)) |->
                        Unwrap(coefficients[rc[2]])[rc[1]]]))

\* mutant: the viscosity block reads the thermal-conductivity sets
ViscosityFromThermalConductivity(pure) ==
    CoefficientMatrix(
        [i \in DOMAIN pure |-> pure[i].model_record.thermal_conductivity], 4)

\* viscosity_coefficients built from the records' viscosity sets
ViscosityCoefficients(pure) ==
    CoefficientMatrix([i \in DOMAIN pure |-> pure[i].model_record.viscosity], 4)

\* diffusion_coefficients
DiffusionCoefficients(pure) ==
    CoefficientMatrix([i \in DOMAIN pure |-> pure[i].model_record.diffusion], 5)

\* thermal_conductivity_coefficients
ThermalConductivityCoefficients(pure) ==
    CoefficientMatrix(
        [i \in DOMAIN pure |-> pure[i].model_record.thermal_conductivity], 4)

\* the permittivity records of the components that have one, in component order
PermittivityRecords(pure) ==
    LET idx == CollectIndices({i \in DOMAIN pure :
                    IsSome(pure[i].model_record.permittivity_record)})
    IN  [k \in DOMAIN idx |-> Unwrap(pure[idx[k]].model_record.permittivity_record)]

\* nionic != 0 && permittivity_records.len() < nsolvent
MissingPermittivity(nionic, nrecords, nsolvent) ==
    nionic # 0 /\ nrecords < nsolvent

\* mutant: t_check is never advanced past 0.0
PointsUnsortedStaleCheck(pts) == \E p \in DOMAIN pts : pts[p][1] < 0

\* the sortedness check of one point list: some point.0 < t_check, where
\* t_check is 0.0 before the first point and the previous point.0 after
PointsUnsorted(pts) ==
    \E p \in DOMAIN pts : pts[p][1] < (IF p = 0 THEN 0 ELSE pts[p - 1][1])

\* mutant: the PerturbationTheory arm tests for its own kind
PerturbationInconsistentOwnKind(modeltype) == modeltype = 1

\* the PerturbationTheory arm refuses after an ExperimentalData record
PerturbationInconsistent(modeltype) == modeltype = 2

\* the ExperimentalData arm refuses after a PerturbationTheory record
ExperimentalInconsistent(modeltype) == modeltype = 1

\* one iteration of permittivity_records.iter().enumerate().for_each
PermittivityStep(st, i, record) ==
    IF record.kind = "PerturbationTheory"
    THEN IF PerturbationInconsistent(st.modeltype)
         THEN [st EXCEPT !.panic =
                 Some([msg |-> "Inconsistent models for permittivity", args |-> << >>])]
         ELSE [st EXCEPT
                 !.modeltype = 1,
                 !.mu_scaling = Push(@, record.dipole_scaling[0]),
                 !.alpha_scaling = Push(@, record.polarizability_scaling[0]),
                 !.ci_param = Push(@, record.correlation_integral_parameter[0])]
    ELSE IF ExperimentalInconsistent(st.modeltype)
         THEN [st EXCEPT !.panic =
                 Some([msg |-> "Inconsistent models for permittivity", args |-> << >>])]
         ELSE IF PointsUnsorted(record.data[0])
              THEN [st EXCEPT
                      !.modeltype = 2,
                      !.points = Push(@, record.data[0]),
                      !.panic = Some([msg |-> "Permittivity points are unsorted",
                                      args |-> <<i>>])]
              ELSE [st EXCEPT
                      !.modeltype = 2,
                      !.points = Push(@, record.data[0])]

\* the loop over the permittivity records, from record i on; a panic ends it
RECURSIVE PermittivityLoop(_, _, _)
PermittivityLoop(records, i, st) ==
    IF i >= ALen(records) \/ IsSome(st.panic) THEN st
    ELSE PermittivityLoop(records, i + 1, PermittivityStep(st, i, records[i]))

\* match modeltype { 1 => ..., 2 => ..., _ => None }
ConsolidatedPermittivity(st) ==
    IF st.modeltype = 1
    THEN Some(PerturbationTheory(st.mu_scaling, st.alpha_scaling, st.ci_param))
    ELSE IF st.modeltype = 2
         THEN Some(ExperimentalData(st.points))
         ELSE None

\* mutant: the final check asks for more than one ion
PermittivityUnspecifiedSeveralIons(nionic, permittivity) ==
    nionic > 1 /\ IsNone(permittivity)

\* nionic > 0 && permittivity.is_none()
PermittivityUnspecified(nionic, permittivity) ==
    nionic > 0 /\ IsNone(permittivity)

\* mu[i] = r.mu.unwrap_or(0.0)
MuArray(pure) == [i \in DOMAIN pure |-> UnwrapOr(pure[i].model_record.mu, 0)]

\* q[i] = r.q.unwrap_or(0.0)
QArray(pure) == [i \in DOMAIN pure |-> UnwrapOr(pure[i].model_record.q, 0)]

\* molarweight[i] = record.molarweight
MolarweightArray(pure) == [i \in DOMAIN pure |-> pure[i].molarweight]

\* the quotient a / b of two fixed-point numbers, b to two decimals
Quot(a, b) == (a * 100) \div (b \div 100)

\* x / sigma^k
RECURSIVE QuotPow(_, _, _)
QuotPow(x, sigma, k) == IF k = 0 THEN x ELSE QuotPow(Quot(x, sigma), sigma, k - 1)

\* x * x / (m * sigma^k * epsilon_k) * 1e-19 * (JOULE / KELVIN / KB); the factor
\* 1e-19 / KB is 7243, and the divisions are taken one at a time, the one by
\* epsilon_k first, to keep every intermediate value in range
Reduced(x, m, sigma, epsilon_k, k) ==
    QuotPow(Quot(Quot((x * x) \div ONE, epsilon_k) * 7243, m), sigma, k)

\* mutant: mu2 computed from a dipole moment that defaults to 1
Mu2DefaultOne(pure) ==
    [i \in DOMAIN pure |->
        Reduced(UnwrapOr(pure[i].model_record.mu, ONE), pure[i].model_record.m,
                pure[i].model_record.sigma, pure[i].model_record.epsilon_k, 3)]

\* mu2 = mu * mu / (m * sigma^3 * epsilon_k) * 1e-19 * (JOULE / KELVIN / KB)
Mu2Array(pure) ==
    [i \in DOMAIN pure |->
        Reduced(MuArray(pure)[i], pure[i].model_record.m,
                pure[i].model_record.sigma, pure[i].model_record.epsilon_k, 3)]

\* mutant: q2 computed from the dipole moment
Q2FromMu(pure) ==
    [i \in DOMAIN pure |->
        Reduced(MuArray(pure)[i], pure[i].model_record.m,
                pure[i].model_record.sigma, pure[i].model_record.epsilon_k, 5)]

\* q2 = q * q / (m * sigma^5 * epsilon_k) * 1e-19 * (JOULE / KELVIN / KB)
Q2Array(pure) ==
    [i \in DOMAIN pure |->
        Reduced(QArray(pure)[i], pure[i].model_record.m,
                pure[i].model_record.sigma, pure[i].model_record.epsilon_k, 5)]

\* the indices whose reduced moment is nonzero: (x.abs() > 0.0).then_some(i)
PolarComp(x2) == CollectIndices({i \in DOMAIN x2 : Abs(x2[i]) > 0})

\* r.association_record.into_iter().collect(): the records of one component
OptionToVec(o) == IF IsSome(o) THEN [k \in {0} |-> Unwrap(o)] ELSE << >>

\* association_records: one list of association records for each component
AssociationRecords(pure) ==
    [i \in DOMAIN pure |-> OptionToVec(pure[i].model_record.association_record)]

\* binary_association: the association records of the binary matrix, by cell
BinaryAssociation(binary) ==
    IF IsNone(binary) THEN << >>
    ELSE LET b == Unwrap(binary)
             cells == {ij \in DOMAIN b.at : IsSome(b.at[ij].association)}
         IN  [ij \in cells |-> Unwrap(b.at[ij].association)]

\* AssociationParameters::new(&association_records, &sigma, &binary_association, None):
\* the association subsystem's parameters, kept as the arguments they are built from
AssociationParametersNew(association_records, sigma, binary_association) ==
    [records |-> association_records, sigma |-> sigma,
     binary |-> binary_association]

\* the largest r in lo..hi with r * r <= x
RECURSIVE SqrtSearch(_, _, _)
SqrtSearch(x, lo, hi) ==
    IF lo >= hi THEN lo
    ELSE LET mid == (lo + hi + 1) \div 2
         IN  IF mid * mid <= x THEN SqrtSearch(x, mid, hi)
             ELSE SqrtSearch(x, lo, mid - 1)

\* f64::sqrt of a value of at most 2^31 units
IntSqrt(x) == SqrtSearch(x, 0, 46340)

\* mutant: the arithmetic mean of the two energies
EKijArithmetic(a, b) == (a + b) \div 2

\* (epsilon_k[i] * epsilon_k[j]).sqrt(), the energies taken to two decimals
EKij(a, b) == IntSqrt((a \div 100) * (b \div 100)) * 100

\* 0.5 * (sigma[i] + sigma[j])
SigmaIj(a, b) == (5000 * (a + b)) \div ONE

\* sigma_ij and e_k_ij, filled for every i, j in 0..n
SigmaIjMatrix(sigma) ==
    Array2(ALen(sigma), ALen(sigma),
           [ij \in Indices2(ALen(sigma), ALen(sigma)) |-> SigmaIj(sigma[ij[1]], sigma[ij[2]])])

EKijMatrix(epsilon_k) ==
    Array2(ALen(epsilon_k), ALen(epsilon_k),
           [ij \in Indices2(ALen(epsilon_k), ALen(epsilon_k)) |->
                EKij(epsilon_k[ij[1]], epsilon_k[ij[2]])])

\* from_records: the panic that ends it, or the parameter set it returns
FromRecords(pure, binary) ==
    LET n == ALen(pure)
        sigma == SigmaArray(pure)
        epsilon_k == EpsilonKArray(pure)
        mu2 == Mu2Array(pure)
        q2 == Q2Array(pure)
        dipole_comp == PolarComp(mu2)
        quadpole_comp == PolarComp(q2)
        z == ChargeArray(pure)
        ionic_comp == IonicComp(z)
        nionic == ALen(ionic_comp)
        solvent_comp == SolventComp(z)
        nsolvent == ALen(solvent_comp)
        kij_panic == IF IsSome(binary) THEN KijPanic(Unwrap(binary), n) ELSE None
        permittivity_records == PermittivityRecords(pure)
        st == PermittivityLoop(permittivity_records, 0,
                [modeltype |-> -1, mu_scaling |-> << >>, alpha_scaling |-> << >>,
                 ci_param |-> << >>, points |-> << >>, panic |-> None])
        permittivity == ConsolidatedPermittivity(st)
        failed(p) == [panic |-> p, params |-> None]
    IN  IF IsSome(kij_panic) THEN failed(kij_panic)
        ELSE IF MissingPermittivity(nionic, ALen(permittivity_records), nsolvent)
        THEN failed(Some([msg |-> "Provide permittivity records for each solvent",
                          args |-> << >>]))
        ELSE IF IsSome(st.panic) THEN failed(st.panic)
        ELSE IF PermittivityUnspecified(nionic, permittivity)
        THEN failed(Some([msg |-> "Permittivity of one or more solvents must be specified",
                          args |-> << >>]))
        ELSE [panic |-> None,
              params |-> Some(
                [molarweight |-> MolarweightArray(pure),
                 m |-> MArray(pure),
                 sigma |-> sigma,
                 epsilon_k |-> epsilon_k,
                 mu |-> MuArray(pure),
                 q |-> QArray(pure),
                 mu2 |-> mu2,
                 q2 |-> q2,
                 association |-> AssociationParametersNew(AssociationRecords(pure), sigma,
                                                          BinaryAssociation(binary)),
                 z |-> z,
                 k_ij |-> KijMatrix(binary, n, ionic_comp),
                 sigma_ij |-> SigmaIjMatrix(sigma),
                 e_k_ij |-> EKijMatrix(epsilon_k),
                 ndipole |-> ALen(dipole_comp),
                 nquadpole |-> ALen(quadpole_comp),
                 dipole_comp |-> dipole_comp,
                 quadpole_comp |-> quadpole_comp,
                 nionic |-> nionic,
                 nsolvent |-> nsolvent,
                 sigma_t_comp |-> SigmaTComp(pure),
                 ionic_comp |-> ionic_comp,
                 solvent_comp |-> solvent_comp,
                 viscosity |-> ViscosityCoefficients(pure),
                 diffusion |-> DiffusionCoefficients(pure),
                 thermal_conductivity |-> ThermalConductivityCoefficients(pure),
                 permittivity |-> permittivity,
                 pure_records |-> pure,
                 binary_records |-> binary])]

---------------------------------------------------------------------------
(* HardSphereProperties *)

\* (temperature.re() * -0.01775).exp() * 10.11 - (temperature.re() * -0.01146).exp() * 1.417
\* for a temperature in kelvin
SigmaTCorrection(T) ==
    (ExpNeg((1775 * T) \div 10) * 1011) \div 100
    - (ExpNeg((1146 * T) \div 10) * 1417) \div 1000

\* the loop bound of sigma_t: for i in 0..self.sigma_t_comp.len()
SigmaTCorrected(p, i) == i < ALen(p.sigma_t_comp)

\* sigma_t(temperature)
SigmaT(p, T) ==
    [i \in DOMAIN p.sigma |->
        IF SigmaTCorrected(p, i) THEN p.sigma[i] + SigmaTCorrection(T)
        ELSE p.sigma[i]]

\* the generic correction: -((ti * epsilon_k[i]).exp() * 0.12 - 1.0) * sigma_t[i]
\* with ti = -3 / temperature
HsGeneric(sigma_t_i, epsilon_k_i, T) ==
    ((ONE - (12 * ExpNeg((3 * epsilon_k_i) \div T)) \div 100) * sigma_t_i) \div ONE

\* the diameter of an ion: sigma_t[ai] * (1.0 - 0.12)
HsIonic(sigma_t_i) == (sigma_t_i * (ONE - 1200)) \div ONE

\* mutant: the override loop writes d[i] for its counter i
HsOverriddenByCounter(p, i) == i < p.nionic

\* the override loop: for i in 0..self.nionic, ai = self.ionic_comp[i] is overridden
HsOverridden(p, i) == \E a \in 0..(p.nionic - 1) : p.ionic_comp[a] = i

\* hs_diameter(temperature)
HsDiameter(p, T) ==
    LET sigma_t == SigmaT(p, T)
    IN  [i \in DOMAIN sigma_t |->
            IF HsOverridden(p, i) THEN HsIonic(sigma_t[i])
            ELSE HsGeneric(sigma_t[i], p.epsilon_k[i], T)]

---------------------------------------------------------------------------
(* ElectrolytePcSaftParameters::to_markdown *)

\* AssociationRecord::new(kappa_ab, epsilon_k_ab, na, nb, nc)
AssociationRecordNew(kappa_ab, epsilon_k_ab, na, nb, nc) ==
    [kappa_ab |-> kappa_ab, epsilon_k_ab |-> epsilon_k_ab,
     na |-> na, nb |-> nb, nc |-> nc]

\* the first line of the table, cell by cell
MarkdownHeader ==
    <<"component", "molarweight", "$m$", "$\\sigma$", "$\\varepsilon$", "$\\mu$",
      "$Q$", "$z$", "$\\kappa_{AB}$", "$\\varepsilon_{AB}$", "$N_A$", "$N_B$">>

\* the second line of the table: |-|-|-|-|-|-|-|-|-|-|-|-|
MarkdownSeparator == <<"-", "-", "-", "-", "-", "-", "-", "-", "-", "-", "-", "-">>

\* the line written for component i, cell by cell
MarkdownRow(record, i) ==
    LET component == UnwrapOr(record.identifier.name, <<"Component", i + 1>>)
        association == UnwrapOr(record.model_record.association_record,
                                AssociationRecordNew(0, 0, 0, 0, 0))
    IN  <<component,
          record.molarweight,
          record.model_record.m,
          record.model_record.sigma,
          record.model_record.epsilon_k,
          UnwrapOr(record.model_record.mu, 0),
          UnwrapOr(record.model_record.q, 0),
          UnwrapOr(record.model_record.z, 0),
          association.kappa_ab,
          association.epsilon_k_ab,
          association.na,
          association.nb,
          association.nc>>

\* to_markdown(): the text as the sequence of its lines, each line as the
\* sequence of the cells between its bars
ToMarkdown(p) ==
    <<MarkdownHeader, MarkdownSeparator>>
        \o [k \in 1..ALen(p.pure_records) |-> MarkdownRow(p.pure_records[k - 1], k - 1)]

---------------------------------------------------------------------------
(* ElectrolytePcSaftBinaryRecord: constructors and Display *)

\* BinaryAssociationRecord::new(kappa_ab, epsilon_k_ab, None)
BinaryAssociationRecordNew(kappa_ab, epsilon_k_ab) ==
    [kappa_ab |-> kappa_ab, epsilon_k_ab |-> epsilon_k_ab]

\* ElectrolytePcSaftBinaryRecord::new(k_ij, kappa_ab, epsilon_k_ab)
BinaryRecordNew(k_ij, kappa_ab, epsilon_k_ab) ==
    BinaryRecord(UnwrapOr(k_ij, << >>),
                 IF IsNone(kappa_ab) /\ IsNone(epsilon_k_ab) THEN None
                 ELSE Some(BinaryAssociationRecordNew(kappa_ab, epsilon_k_ab)))

\* TryFrom<f64>: k_ij = vec![k_ij, 0., 0., 0.], no association
BinaryRecordTryFrom(k_ij) ==
    BinaryRecord([k \in 0..3 |-> IF k = 0 THEN k_ij ELSE 0], None)

\* the panic of indexing a Vec of length len at index
IndexOutOfBounds(len, index) ==
    Some([msg |-> "index out of bounds", args |-> <<len, index>>])

\* the tokens pushed for the coefficients, when k_ij[0] is not zero
KijTokens(k_ij) ==
    <<<<"ElectrolytePcSaftBinaryRecord(k_ij_0=", k_ij[0]>>,
      <<"ElectrolytePcSaftBinaryRecord(k_ij_1=", k_ij[1]>>,
      <<"ElectrolytePcSaftBinaryRecord(k_ij_2=", k_ij[2]>>,
      <<"ElectrolytePcSaftBinaryRecord(k_ij_3=", k_ij[3]>>,
      <<")">>>>

\* the tokens pushed for the association record
AssociationTokens(association) ==
    IF IsNone(association) THEN << >>
    ELSE (IF IsSome(Unwrap(association).kappa_ab)
          THEN <<<<"kappa_ab=", Unwrap(Unwrap(association).kappa_ab)>>>> ELSE << >>)
         \o (IF IsSome(Unwrap(association).epsilon_k_ab)
             THEN <<<<"epsilon_k_ab=", Unwrap(Unwrap(association).epsilon_k_ab)>>>>
             ELSE << >>)

\* <ElectrolytePcSaftBinaryRecord as Display>::fmt: the panic it ends in, or
\* the text written, as the joined tokens between "PcSaftBinaryRecord(" and ")"
Fmt(record) ==
    LET k_ij == record.k_ij
        len == ALen(k_ij)
    IN  IF len = 0
        THEN [panic |-> IndexOutOfBounds(len, 0), text |-> None]
        ELSE IF k_ij[0] # 0 /\ len < 4
        THEN [panic |-> IndexOutOfBounds(len, len), text |-> None]
        ELSE [panic |-> None,
              text |-> Some(<<"PcSaftBinaryRecord(",
                              (IF k_ij[0] # 0 THEN KijTokens(k_ij) ELSE << >>)
                                  \o AssociationTokens(record.association),
                              ")">>)]

---------------------------------------------------------------------------
(* FromSegments for ElectrolytePcSaftRecord *)

\* the product of two f64 values
Mul(a, b) == ((a \div 10) * (b \div 10)) \div 100

\* the quotient a / b of two f64 values, for b below 21.4748
Div(a, b) == (a \div b) * ONE + ((a % b) * ONE) \div b

\* f64::powi(3)
Cube(x) == Mul(Mul(x, x), x)

\* the largest r in lo..hi with r * r * r <= x
RECURSIVE CbrtSearch(_, _, _)
CbrtSearch(x, lo, hi) ==
    IF lo >= hi THEN lo
    ELSE LET mid == (lo + hi + 1) \div 2
         IN  IF mid * mid * mid <= x THEN CbrtSearch(x, mid, hi)
             ELSE CbrtSearch(x, lo, mid - 1)

\* f64::cbrt: the root to two decimals, refined by one Newton step
Cbrt(x) ==
    LET r0 == CbrtSearch(x * 100, 0, 1290) * 100
    IN  IF r0 < 1000 THEN r0
        ELSE (2 * r0 + (x * 100) \div ((r0 * r0) \div 1000000)) \div 3

\* ln f for 1 <= f < 2: 2 (y + y^3/3 + y^5/5 + y^7/7) with y = (f - 1) / (f + 1)
LnSeries(f) ==
    LET y == Div(f - ONE, f + ONE)
        y2 == (y * y) \div ONE
        y3 == (y * y2) \div ONE
        y5 == (y3 * y2) \div ONE
        y7 == (y5 * y2) \div ONE
    IN  2 * (y + y3 \div 3 + y5 \div 5 + y7 \div 7)

\* f64::ln of a positive value: ln x = k ln 2 + ln f with x = 2^k f
RECURSIVE Ln(_)
Ln(x) ==
    IF x >= 2 * ONE THEN 6931 + Ln(x \div 2)
    ELSE IF x < ONE THEN Ln(2 * x) - 6931
    ELSE LnSeries(x)

\* f64::exp of a non-negative argument: exp(x) = 2^q / exp(-r) with x = q ln 2 + r
ExpPos(x) ==
    LET q == x \div 6931
        r == x % 6931
    IN  ((ONE * ONE) \div ExpSeries(r, 1, ONE, ONE)) * Pow2(q)

\* f64::powf(0.45) of a positive value
Powf045(x) ==
    LET y == (45 * Ln(x)) \div 100
    IN  IF y >= 0 THEN ExpPos(y) ELSE ExpNeg(-y)

\* the sum of the entries of an array
RECURSIVE SumFrom(_, _)
SumFrom(a, k) == IF k >= ALen(a) THEN 0 ELSE a[k] + SumFrom(a, k + 1)

Sum(a) == SumFrom(a, 0)

\* iter().filter_map(..).reduce(|a, b| a + b): the sum of the values present,
\* None when there is none
ReduceSum(opts) ==
    IF \A k \in DOMAIN opts : IsNone(opts[k]) THEN None
    ELSE Some(Sum([k \in DOMAIN opts |-> UnwrapOr(opts[k], 0)]))

\* m += s.m * n
SegmentNumber(segs) == Sum([k \in DOMAIN segs |-> segs[k][1].m * segs[k][2]])

\* s.m * s.sigma.powi(3) * n
S3(s, n) == Mul(s.m, Cube(s.sigma)) * n

\* sigma3 += s.m * s.sigma.powi(3) * n
Sigma3(segs) == Sum([k \in DOMAIN segs |-> S3(segs[k][1], segs[k][2])])

\* epsilon_k += s.m * s.epsilon_k * n
EpsilonKSum(segs) ==
    Sum([k \in DOMAIN segs |-> Mul(segs[k][1].m, segs[k][1].epsilon_k) * segs[k][2]])

\* mutant: z = s.z.unwrap_or(0.0), the charge of the last segment
ChargeLast(segs) == UnwrapOr(segs[ALen(segs) - 1][1].z, 0)

\* z += s.z.unwrap_or(0.0)
ChargeSum(segs) == Sum([k \in DOMAIN segs |-> UnwrapOr(segs[k][1].z, 0)])

\* q: filter_map(|(s, n)| s.q.map(|q| q * n)).reduce(+)
QSum(segs) ==
    ReduceSum([k \in DOMAIN segs |->
        IF IsSome(segs[k][1].q) THEN Some(Unwrap(segs[k][1].q) * segs[k][2]) ELSE None])

\* mu: filter_map(|(s, n)| s.mu.map(|mu| mu * n)).reduce(+)
MuSum(segs) ==
    ReduceSum([k \in DOMAIN segs |->
        IF IsSome(segs[k][1].mu) THEN Some(Unwrap(segs[k][1].mu) * segs[k][2]) ELSE None])

\* the association record: the sums of kappa_ab * n, epsilon_k_ab * n, na * n,
\* nb * n, nc * n over the segments that carry one, None when none does
AssociationSum(segs) ==
    LET with == {k \in DOMAIN segs : IsSome(segs[k][1].association_record)}
        r(k) == Unwrap(segs[k][1].association_record)
        total(field) ==
            Sum([k \in DOMAIN segs |-> IF k \in with THEN field[k] * segs[k][2] ELSE 0])
    IN  IF with = {} THEN None
        ELSE Some(AssociationRecordNew(
                total([k \in DOMAIN segs |-> IF k \in with THEN r(k).kappa_ab ELSE 0]),
                total([k \in DOMAIN segs |-> IF k \in with THEN r(k).epsilon_k_ab ELSE 0]),
                total([k \in DOMAIN segs |-> IF k \in with THEN r(k).na ELSE 0]),
                total([k \in DOMAIN segs |-> IF k \in with THEN r(k).nb ELSE 0]),
                total([k \in DOMAIN segs |-> IF k \in with THEN r(k).nc ELSE 0])))

\* n_t = segments.iter().fold(0.0, |acc, (_, n)| acc + n)
CountSum(segs) == Sum([k \in DOMAIN segs |-> segs[k][2]])

\* viscosity: Some iff every segment has coefficients; p[0] += s3 * a,
\* p[1] += s3 * b / sigma3.powf(0.45), p[2] += n * c, p[3] += n * d, and then
\* p[0] - 0.5 * m.ln()
ViscositySum(segs) ==
    IF \E k \in DOMAIN segs : IsNone(segs[k][1].viscosity) THEN None
    ELSE LET v(k) == Unwrap(segs[k][1].viscosity)
             s3(k) == S3(segs[k][1], segs[k][2])
             pow == Powf045(Sigma3(segs))
             p == [r \in 0..3 |->
                    Sum([k \in DOMAIN segs |->
                        CASE r = 0 -> Mul(s3(k), v(k)[0])
                          [] r = 1 -> Div(Mul(s3(k), v(k)[1]), pow)
                          [] OTHER -> segs[k][2] * v(k)[r]])]
         IN  Some([p EXCEPT ![0] = p[0] - Ln(SegmentNumber(segs)) \div 2])

\* thermal_conductivity: Some iff every segment has coefficients;
\* p[0] += n * a, p[1] += n * b, p[2] += n * c, p[3] += n_t * d
ThermalConductivitySum(segs) ==
    IF \E k \in DOMAIN segs : IsNone(segs[k][1].thermal_conductivity) THEN None
    ELSE LET t(k) == Unwrap(segs[k][1].thermal_conductivity)
         IN  Some([r \in 0..3 |->
                Sum([k \in DOMAIN segs |->
                    IF r = 3 THEN CountSum(segs) * t(k)[3]
                    ELSE segs[k][2] * t(k)[r]])])

\* mutant: the accumulation that lines 141-147 leave commented out is active
DiffusionAccumulated(segs) ==
    IF \E k \in DOMAIN segs : IsNone(segs[k][1].diffusion) THEN None
    ELSE LET d(k) == Unwrap(segs[k][1].diffusion)
             s3(k) == S3(segs[k][1], segs[k][2])
             pow == Powf045(Sigma3(segs))
         IN  Some([r \in 0..4 |->
                Sum([k \in DOMAIN segs |->
                    CASE r = 0 -> Mul(s3(k), d(k)[0])
                      [] r = 1 -> Div(Mul(s3(k), d(k)[1]), pow)
                      [] r = 4 -> 0
                      [] OTHER -> segs[k][2] * d(k)[r]])])

\* diffusion: Some([0.0; 5]) iff every segment has coefficients; nothing is added
DiffusionSum(segs) ==
    IF \E k \in DOMAIN segs : IsNone(segs[k][1].diffusion) THEN None
    ELSE Some([r \in 0..4 |-> 0])

\* <ElectrolytePcSaftRecord as FromSegments<f64>>::from_segments of a list of
\* at least one segment, with whole counts
FromSegments(segs) ==
    LET m == SegmentNumber(segs)
    IN  [m |-> m,
         sigma |-> Cbrt(Div(Sigma3(segs), m)),
         epsilon_k |-> Div(EpsilonKSum(segs), m),
         mu |-> MuSum(segs),
         q |-> QSum(segs),
         association_record |-> AssociationSum(segs),
         viscosity |-> ViscositySum(segs),
         diffusion |-> DiffusionSum(segs),
         thermal_conductivity |-> ThermalConductivitySum(segs),
         z |-> Some(ChargeSum(segs)),
         permittivity_record |-> None]

---------------------------------------------------------------------------
(* Inputs *)

\* the permittivity record of a component described by perturbation theory
WaterPerturbationTheory == PerturbationTheory([k \in {0} |-> 5000], [k \in {0} |-> 3000], [k \in {0} |-> 1000])

\* a component with charge z and permittivity record perm, nothing else optional
ChargedComponent(z, perm) ==
    PureRecord(None, 180150,
               [PlainModelRecord EXCEPT !.z = z, !.permittivity_record = perm])

\* the coefficient sequences a user supplies for a pair: 1 to KijLen + 1 coefficients
UserKij == {[k \in 0..(len - 1) |-> 100 * (k + 2)] : len \in 1..(KijLen + 1)}

\* the binary-record matrices of n components in which at most MaxOverrides
\* records differ from the default record
BinaryMatrices(n) ==
    LET cells == {S \in SUBSET Pairs(n) : Cardinality(S) <= MaxOverrides}
    IN  {Array2(n, n, [ij \in Indices2(n, n) |->
            IF ij \in DOMAIN ov THEN BinaryRecord(ov[ij], None)
            ELSE DefaultBinaryRecord]) :
         ov \in UNION {[S -> UserKij] : S \in cells}}

KijComponents ==
    {ChargedComponent(z, perm) :
        z \in {Some(0), Some(ONE)}, perm \in {None, Some(WaterPerturbationTheory)}}

\* temperatures (K) of experimental permittivity points
PointTemperatures == {280, 300}

\* the point lists of one component: up to MaxPoints (temperature, permittivity) points
PointLists == Arrays({<<t, 80>> : t \in PointTemperatures}, MaxPoints)

PermittivityInputs ==
    {None, Some(WaterPerturbationTheory)}
    \cup {Some(ExperimentalData([k \in {0} |-> pts])) : pts \in PointLists}

PermComponents ==
    {ChargedComponent(z, perm) : z \in {Some(0), Some(ONE)}, perm \in PermittivityInputs}

ChargeComponents ==
    {ChargedComponent(z, perm) :
        z \in {None, Some(0), Some(ONE), Some(-ONE)},
        perm \in {None, Some(WaterPerturbationTheory)}}

\* the coefficient sets a record supplies for a family of `rows` coefficients
CoefficientInputs(rows) ==
    {None, Some([r \in 0..(rows - 1) |-> 100 * (r + 1)]),
           Some([r \in 0..(rows - 1) |-> -100 * (r + 1)])}

EntropyComponents ==
    {PureRecord(None, 440970,
        [PlainModelRecord EXCEPT !.viscosity = v, !.diffusion = d,
                                 !.thermal_conductivity = t]) :
        v \in CoefficientInputs(4), d \in CoefficientInputs(5), t \in CoefficientInputs(4)}

\* display names: absent, without the marker, with the marker
NameInputs == {None, Some(<<"water">>), Some(<<"water", "np", "sigma_t">>)}

SigmaComponents ==
    {PureRecord(name, 180150, [PlainModelRecord EXCEPT !.sigma = sigma]) :
        name \in NameInputs, sigma \in {27927, 37086}}

\* components of the hard-sphere diameter: charge, energy and name vary, and
\* every component carries a permittivity record
HsComponents ==
    {PureRecord(name, 229898,
        [PlainModelRecord EXCEPT !.z = z, !.epsilon_k = e,
            !.permittivity_record = Some(WaterPerturbationTheory)]) :
        name \in {Some(<<"na+">>), Some(<<"water", "np", "sigma_t">>)},
        z \in {Some(0), Some(ONE)},
        e \in {1700000, 2228800}}

\* components of the polar terms: dipole and quadrupole moments vary
PolarComponents ==
    {PureRecord(None, 581230, [PlainModelRecord EXCEPT !.mu = mu, !.q = q]) :
        mu \in {None, Some(0), Some(13000)},
        q \in {None, Some(0), Some(44000)}}

\* components of the combining rules: diameters and energies vary
MixComponents ==
    {PureRecord(None, 581230, [PlainModelRecord EXCEPT !.sigma = s, !.epsilon_k = e]) :
        s \in {28232, 37086}, e \in {1700000, 2228800}}

\* an association record (kappa_ab, epsilon_k_ab, na, nb, nc)
WaterAssociation == AssociationRecordNew(451, 25006700, ONE, ONE, 0)

\* components of the table: names and association records vary
MarkdownComponents ==
    {PureRecord(name, 180150, [PlainModelRecord EXCEPT !.association_record = a]) :
        name \in {None, Some(<<"water">>)}, a \in {None, Some(WaterAssociation)}}

\* the binary records that new, TryFrom<f64> and Default construct
DisplayRecords ==
    {BinaryRecordNew(k_ij, kappa_ab, epsilon_k_ab) :
        k_ij \in {None} \cup {Some(a) : a \in Arrays({0, 300}, MaxKijDisplay)},
        kappa_ab \in {None, Some(451)},
        epsilon_k_ab \in {None, Some(25006700)}}
    \cup {BinaryRecordTryFrom(k_ij) : k_ij \in {0, 300}}
    \cup {DefaultBinaryRecord}

\* a segment record
Segment(m, sigma, epsilon_k) ==
    [PlainModelRecord EXCEPT !.m = m, !.sigma = sigma, !.epsilon_k = epsilon_k]

\* entropy-scaling coefficient sets of a segment
SegmentViscosity == [r \in 0..3 |-> -100 * (r + 1)]

SegmentThermalConductivity == [r \in 0..3 |-> 100 * (r + 2)]

SegmentDiffusion == [r \in 0..4 |-> 100 * (r + 1)]

IonDiffusion == [r \in 0..4 |-> -100 * (r + 2)]

\* the segments: a plain one; one with entropy-scaling coefficients; a polar,
\* associating one; a charged one
SegmentRecords ==
    {Segment(7725, 36937, 1814900),
     [Segment(7912, 30207, 1572300) EXCEPT
        !.viscosity = Some(SegmentViscosity),
        !.thermal_conductivity = Some(SegmentThermalConductivity),
        !.diffusion = Some(SegmentDiffusion)],
     [Segment(4020, 32859, 4886600) EXCEPT
        !.mu = Some(17000), !.q = Some(12000),
        !.association_record = Some(AssociationRecordNew(90, 25176900, ONE, ONE, 0)),
        !.viscosity = Some(SegmentViscosity),
        !.thermal_conductivity = Some(SegmentThermalConductivity),
        !.diffusion = Some(SegmentDiffusion)],
     [Segment(10000, 28232, 2300000) EXCEPT
        !.z = Some(ONE),
        !.viscosity = Some(SegmentViscosity),
        !.thermal_conductivity = Some(SegmentThermalConductivity),
        !.diffusion = Some(IonDiffusion)]}

\* the segment lists: 1 to MaxSegments entries (segment, count)
SegmentLists ==
    Arrays(SegmentRecords \X (1..MaxCount), MaxSegments) \ {<< >>}

\* temperatures (K) of the hard-sphere queries
Temperatures == {200, 300, 350}

---------------------------------------------------------------------------
(* Specifications *)

Start(pure, binary) ==
    /\ pure_records = pure
    /\ binary_records = binary
    /\ pc = "input"
    /\ params = None
    /\ panic = None
    /\ query = None
    /\ segments = None
    /\ aggregated = None
    /\ binary_record = None
    /\ text = None

\* coefficient overwrite: charges and binary records vary
InitKij ==
    \E pure \in Arrays(KijComponents, MaxNKij) :
        \E binary \in {None} \cup {Some(b) : b \in BinaryMatrices(ALen(pure))} :
            Start(pure, binary)

\* permittivity: charges and permittivity records vary
InitPerm == \E pure \in Arrays(PermComponents, MaxNPerm) : Start(pure, None)

\* classification by charge
InitCharge == \E pure \in Arrays(ChargeComponents, MaxNCharge) : Start(pure, None)

\* entropy-scaling coefficient sets vary
InitEntropy == \E pure \in Arrays(EntropyComponents, MaxNEntropy) : Start(pure, None)

\* names and diameters vary
InitSigma == \E pure \in Arrays(SigmaComponents, MaxNSigma) : Start(pure, None)

\* charges, energies and names vary
InitHs == \E pure \in Arrays(HsComponents, MaxNHs) : Start(pure, None)

\* dipole and quadrupole moments vary
InitPolar == \E pure \in Arrays(PolarComponents, MaxNPolar) : Start(pure, None)

\* diameters and energies vary
InitMix == \E pure \in Arrays(MixComponents, MaxNMix) : Start(pure, None)

\* names and association records vary
InitMarkdown == \E pure \in Arrays(MarkdownComponents, MaxNMarkdown) : Start(pure, None)

\* a binary record to display
StartDisplay(record) ==
    /\ pure_records = << >>
    /\ binary_records = None
    /\ pc = "record"
    /\ params = None
    /\ panic = None
    /\ query = None
    /\ segments = None
    /\ aggregated = None
    /\ binary_record = Some(record)
    /\ text = None

InitDisplay == \E record \in DisplayRecords : StartDisplay(record)

\* a segment list to aggregate
StartSegments(segs) ==
    /\ pure_records = << >>
    /\ binary_records = None
    /\ pc = "segments"
    /\ params = None
    /\ panic = None
    /\ query = None
    /\ segments = Some(segs)
    /\ aggregated = None
    /\ binary_record = None
    /\ text = None

InitSegments == \E segs \in SegmentLists : StartSegments(segs)

Init == InitKij \/ InitPerm \/ InitCharge \/ InitEntropy \/ InitSigma \/ InitHs \/ InitPolar \/ InitMix \/ InitMarkdown \/ InitDisplay \/ InitSegments

\* ElectrolytePcSaftParameters::from_records(pure_records, binary_records)
FromRecordsStep ==
    /\ pc = "input"
    /\ LET r == FromRecords(pure_records, binary_records)
       IN  /\ pc' = IF IsSome(r.panic) THEN "failed" ELSE "built"
           /\ params' = r.params
           /\ panic' = r.panic
    /\ UNCHANGED <<pure_records, binary_records, query, segments, aggregated,
                   binary_record, text>>

\* params.sigma_t(temperature)
SigmaTStep ==
    /\ pc = "built"
    /\ \E T \in Temperatures :
        query' = Some([fn |-> "sigma_t", temperature |-> T,
                       value |-> SigmaT(Unwrap(params), T)])
    /\ UNCHANGED <<pure_records, binary_records, pc, params, panic, segments,
                   aggregated, binary_record, text>>

\* params.hs_diameter(temperature)
HsDiameterStep ==
    /\ pc = "built"
    /\ \E T \in Temperatures :
        query' = Some([fn |-> "hs_diameter", temperature |-> T,
                       value |-> HsDiameter(Unwrap(params), T)])
    /\ UNCHANGED <<pure_records, binary_records, pc, params, panic, segments,
                   aggregated, binary_record, text>>

\* params.to_markdown()
ToMarkdownStep ==
    /\ pc = "built"
    /\ query' = Some([fn |-> "to_markdown", value |-> ToMarkdown(Unwrap(params))])
    /\ UNCHANGED <<pure_records, binary_records, pc, params, panic, segments,
                   aggregated, binary_record, text>>

\* format!("{}", binary_record)
FmtStep ==
    /\ pc = "record"
    /\ LET r == Fmt(Unwrap(binary_record))
       IN  /\ panic' = r.panic
           /\ text' = r.text
    /\ pc' = "displayed"
    /\ UNCHANGED <<pure_records, binary_records, params, query, segments,
                   aggregated, binary_record>>

\* <ElectrolytePcSaftRecord as FromSegments<usize>>::from_segments(segments):
\* the counts are cast to f64 and the list is aggregated
FromSegmentsStep ==
    /\ pc = "segments"
    /\ aggregated' = Some(FromSegments(Unwrap(segments)))
    /\ pc' = "aggregated"
    /\ UNCHANGED <<pure_records, binary_records, params, panic, query, segments,
                   binary_record, text>>

NextBuild == FromRecordsStep

NextSigma == FromRecordsStep \/ SigmaTStep

NextHs == FromRecordsStep \/ HsDiameterStep

NextMarkdown == FromRecordsStep \/ ToMarkdownStep

NextDisplay == FmtStep

NextSegments == FromSegmentsStep

Next == FromRecordsStep \/ SigmaTStep \/ HsDiameterStep \/ ToMarkdownStep \/ FmtStep
            \/ FromSegmentsStep

Spec == Init /\ [][Next]_vars

SpecKij == InitKij /\ [][NextBuild]_vars

SpecPerm == InitPerm /\ [][NextBuild]_vars

SpecCharge == InitCharge /\ [][NextBuild]_vars

SpecEntropy == InitEntropy /\ [][NextBuild]_vars

SpecSigma == InitSigma /\ [][NextSigma]_vars

SpecHs == InitHs /\ [][NextHs]_vars

SpecPolar == InitPolar /\ [][NextBuild]_vars

SpecMix == InitMix /\ [][NextBuild]_vars

SpecMarkdown == InitMarkdown /\ [][NextMarkdown]_vars

SpecDisplay == InitDisplay /\ [][NextDisplay]_vars

SpecSegments == InitSegments /\ [][NextSegments]_vars

---------------------------------------------------------------------------
(* Properties of the inputs, read off the records themselves *)

\* component i of the input carries a nonzero charge
InputIonic(i) == UnwrapOr(pure_records[i].model_record.z, 0) # 0

\* component i of the input carries a permittivity record
InputHasPermittivity(i) == IsSome(pure_records[i].model_record.permittivity_record)

\* the kinds of the permittivity records of the input
InputPermittivityKinds ==
    {Unwrap(pure_records[i].model_record.permittivity_record).kind :
        i \in {j \in DOMAIN pure_records : InputHasPermittivity(j)}}

\* a point of the list has a lower temperature than the point before it
HasDecrease(pts) == \E p \in DOMAIN pts : p > 0 /\ pts[p][1] < pts[p - 1][1]

\* component i of the input carries experimental points with a decrease
InputUnsorted(i) ==
    /\ InputHasPermittivity(i)
    /\ LET rec == Unwrap(pure_records[i].model_record.permittivity_record)
       IN  rec.kind = "ExperimentalData" /\ HasDecrease(rec.data[0])

\* the pairs of the supplied binary matrix with more than 4 coefficients
InputLongPairs ==
    IF IsNone(binary_records) THEN {}
    ELSE {ij \in DOMAIN Unwrap(binary_records).at :
            ALen(Unwrap(binary_records).at[ij].k_ij) > 4}

\* the record holds m, sigma and epsilon_k and no optional field
OnlyRequired(r) ==
    /\ IsNone(r.mu) /\ IsNone(r.q) /\ IsNone(r.z)
    /\ IsNone(r.association_record) /\ IsNone(r.permittivity_record)
    /\ IsNone(r.viscosity) /\ IsNone(r.diffusion) /\ IsNone(r.thermal_conductivity)

\* the segment list with entries i and j exchanged
Swapped(segs, i, j) ==
    [k \in DOMAIN segs |-> IF k = i THEN segs[j] ELSE IF k = j THEN segs[i] ELSE segs[k]]

\* the first len entries aggregated into one record, which is then aggregated
\* with count 1 together with the remaining entries
Nested(segs, len) ==
    LET head == FromSegments([k \in 0..(len - 1) |-> segs[k]])
    IN  FromSegments([k \in 0..(ALen(segs) - len) |->
            IF k = 0 THEN <<head, 1>> ELSE segs[len + k - 1]])

\* entry k = (s, n) replaced by n entries (s, 1)
Repeated(segs, k) ==
    LET n == segs[k][2]
    IN  [j \in 0..(ALen(segs) + n - 2) |->
            IF j < k THEN segs[j]
            ELSE IF j < k + n THEN <<segs[k][1], 1>>
            ELSE segs[j - n + 1]]

\* two results agree to the relative precision 0.001 of the arithmetic
Close(a, b) == Abs(a - b) <= (Abs(a) + Abs(b)) \div 1000

\* two aggregated records have the same m, sigma^3-weighted sum, epsilon_k,
\* mu, q, z and association sums
SameTotals(a, b) ==
    /\ a.m = b.m
    /\ Close(S3(a, 1), S3(b, 1))
    /\ Close(a.epsilon_k, b.epsilon_k)
    /\ a.mu = b.mu /\ a.q = b.q /\ a.z = b.z
    /\ a.association_record = b.association_record

\* two optional coefficient sets are both absent, or both present and close
SameCoefficients(a, b) ==
    /\ IsSome(a) <=> IsSome(b)
    /\ IsSome(a) => \A r \in DOMAIN Unwrap(a) : Close(Unwrap(a)[r], Unwrap(b)[r])

\* the elements of an index array
Elements(a) == {a[k] : k \in DOMAIN a}

\* from_records ended in the panic with this message
PanickedWith(msg) == pc = "failed" /\ IsSome(panic) /\ Unwrap(panic).msg = msg

---------------------------------------------------------------------------
(* Claims *)

\* C1: in every built parameter set, with or without a binary-record matrix,
\* every ionic component i has k_ij[i][i] = [1, 0, 0, 0].
C1_IonicSelfPair ==
    pc = "built" =>
        \A i \in DOMAIN pure_records :
            InputIonic(i) =>
                Unwrap(params).k_ij.at[<<i, i>>]
                    = [k \in 0..3 |-> IF k = 0 THEN ONE ELSE 0]

\* C2: for every temperature and every component whose name does not contain
\* the marker, sigma_t(T)[i] equals the static sigma[i].
C2_UnflaggedStatic ==
    (pc = "built" /\ IsSome(query) /\ Unwrap(query).fn = "sigma_t") =>
        \A i \in DOMAIN pure_records :
            ~Contains(UnwrapOr(pure_records[i].identifier.name, <<"unknown">>),
                      "sigma_t")
                => Unwrap(query).value[i] = pure_records[i].model_record.sigma

\* C3: when some component is ionic, a build succeeds only if every solvent
\* component carries a permittivity record.
C3_EverySolventHasPermittivity ==
    (pc = "built" /\ \E i \in DOMAIN pure_records : InputIonic(i)) =>
        \A i \in DOMAIN pure_records :
            ~InputIonic(i) => InputHasPermittivity(i)

\* C4: when some component is ionic and no component carries a permittivity
\* record, from_records fails and produces no parameter set.
C4_NoPermittivityFails ==
    (/\ pc # "input"
     /\ \E i \in DOMAIN pure_records : InputIonic(i)
     /\ \A i \in DOMAIN pure_records : ~InputHasPermittivity(i))
        => pc = "failed" /\ IsSome(panic) /\ params = None

\* C4 witness: one ion and one solvent, neither with a permittivity record,
\* and from_records has failed
C4_Witness ==
    /\ pc = "failed"
    /\ ALen(pure_records) = 2
    /\ \E i \in DOMAIN pure_records : InputIonic(i)
    /\ \E i \in DOMAIN pure_records : ~InputIonic(i)
    /\ \A i \in DOMAIN pure_records : ~InputHasPermittivity(i)

\* C5: a supplied binary matrix with more than 4 coefficients for some pair
\* makes from_records fail with the coefficient-count panic and no parameter
\* set; with 0 to 4 coefficients for every pair that panic never happens.
C5_CoefficientCount ==
    pc # "input" =>
        /\ (InputLongPairs # {}) <=> PanickedWith("more than 4 k_ij coefficients")
        /\ InputLongPairs # {} => params = None

\* C5 witness: a pair with 5 coefficients, and from_records has failed on it
C5_Witness ==
    /\ PanickedWith("more than 4 k_ij coefficients")
    /\ \E ij \in InputLongPairs : ALen(Unwrap(binary_records).at[ij].k_ij) = 5

\* C6: permittivity records of both kinds make from_records fail, in
\* whichever order they appear; records of one kind only give a consolidated
\* permittivity model of that kind.
C6_OneKind ==
    /\ (pc # "input" /\ Cardinality(InputPermittivityKinds) > 1) => pc = "failed"
    /\ (pc = "built" /\ Cardinality(InputPermittivityKinds) = 1) =>
            /\ IsSome(Unwrap(params).permittivity)
            /\ Unwrap(Unwrap(params).permittivity).kind \in InputPermittivityKinds

\* C6 witness: an experimental-data record followed by a perturbation-theory
\* record, refused as inconsistent
C6_Witness ==
    /\ PanickedWith("Inconsistent models for permittivity")
    /\ ALen(pure_records) = 2
    /\ InputHasPermittivity(0) /\ InputHasPermittivity(1)
    /\ Unwrap(pure_records[0].model_record.permittivity_record).kind = "ExperimentalData"
    /\ Unwrap(pure_records[1].model_record.permittivity_record).kind = "PerturbationTheory"

\* C7: experimental points with a decrease in temperature make from_records
\* fail; the point lists of a built parameter set are non-decreasing.
C7_PointsSorted ==
    /\ (pc # "input" /\ \E i \in DOMAIN pure_records : InputUnsorted(i))
            => pc = "failed"
    /\ (/\ pc = "built"
        /\ IsSome(Unwrap(params).permittivity)
        /\ Unwrap(Unwrap(params).permittivity).kind = "ExperimentalData")
            => \A c \in DOMAIN Unwrap(Unwrap(params).permittivity).data :
                    ~HasDecrease(Unwrap(Unwrap(params).permittivity).data[c])

\* C7 witness: a component whose second point is colder than its first,
\* refused as unsorted
C7_Witness ==
    /\ PanickedWith("Permittivity points are unsorted")
    /\ \E i \in DOMAIN pure_records : InputUnsorted(i)

\* C8: a failure of from_records identifies the component or pair that
\* triggered it: the coefficient-count panic reports a pair with more than 4
\* coefficients, and the unsorted-points panic reports the index, in the input
\* component list, of a component whose points are unsorted.
C8_FailureIdentifiesComponent ==
    pc = "failed" =>
        LET msg == Unwrap(panic).msg
            args == Unwrap(panic).args
        IN  /\ msg = "more than 4 k_ij coefficients" => args \in InputLongPairs
            /\ msg = "Permittivity points are unsorted" =>
                    /\ Len(args) = 1
                    /\ args[1] \in DOMAIN pure_records
                    /\ InputUnsorted(args[1])

\* C9: in every built parameter set ionic_comp and solvent_comp are disjoint,
\* cover 0..n-1, hold the indices with z # 0 and z = 0 (a missing z is 0) in
\* ascending order, and nionic + nsolvent = n.
C9_ChargePartition ==
    pc = "built" =>
        LET p == Unwrap(params)
            n == ALen(pure_records)
            ascending(a) == \A k, l \in DOMAIN a : k < l => a[k] < a[l]
        IN  /\ Elements(p.ionic_comp) \cap Elements(p.solvent_comp) = {}
            /\ Elements(p.ionic_comp) \cup Elements(p.solvent_comp) = 0..(n - 1)
            /\ Elements(p.ionic_comp) = {i \in DOMAIN pure_records : InputIonic(i)}
            /\ Elements(p.solvent_comp) = {i \in DOMAIN pure_records : ~InputIonic(i)}
            /\ ascending(p.ionic_comp) /\ ascending(p.solvent_comp)
            /\ DOMAIN p.ionic_comp = 0..(p.nionic - 1)
            /\ DOMAIN p.solvent_comp = 0..(p.nsolvent - 1)
            /\ p.nionic + p.nsolvent = n

\* C9 witness: a built set of an anion and a component without a charge field
C9_Witness ==
    /\ pc = "built"
    /\ ALen(pure_records) = 2
    /\ \E i \in DOMAIN pure_records : UnwrapOr(pure_records[i].model_record.z, 0) < 0
    /\ \E i \in DOMAIN pure_records : IsNone(pure_records[i].model_record.z)

\* the matrix of a family is present iff every record supplies the family, and
\* then has one column per component holding that component's coefficients
FamilyAllOrNothing(matrix, supplied, rows) ==
    /\ IsSome(matrix) <=> \A i \in DOMAIN supplied : IsSome(supplied[i])
    /\ IsSome(matrix) =>
        /\ Unwrap(matrix).dim = <<rows, ALen(supplied)>>
        /\ \A c \in DOMAIN supplied : \A r \in 0..(rows - 1) :
                Unwrap(matrix).at[<<r, c>>] = Unwrap(supplied[c])[r]

\* C10: for each entropy-scaling family independently, the coefficient matrix
\* of a built parameter set is present iff every component record supplies the
\* family, and then holds each component's coefficients in its column.
C10_EntropyAllOrNothing ==
    pc = "built" =>
        LET p == Unwrap(params)
        IN  /\ FamilyAllOrNothing(p.viscosity,
                [i \in DOMAIN pure_records |-> pure_records[i].model_record.viscosity], 4)
            /\ FamilyAllOrNothing(p.diffusion,
                [i \in DOMAIN pure_records |-> pure_records[i].model_record.diffusion], 5)
            /\ FamilyAllOrNothing(p.thermal_conductivity,
                [i \in DOMAIN pure_records |->
                    pure_records[i].model_record.thermal_conductivity], 4)

\* C10 witness: two components that both supply (different) viscosity sets,
\* only one of which supplies diffusion
C10_Witness ==
    /\ pc = "built"
    /\ ALen(pure_records) = 2
    /\ IsSome(Unwrap(params).viscosity)
    /\ pure_records[0].model_record.viscosity # pure_records[1].model_record.viscosity
    /\ IsSome(pure_records[0].model_record.diffusion)
    /\ IsNone(pure_records[1].model_record.diffusion)
    /\ IsNone(Unwrap(params).diffusion)

\* C11: for every temperature, hs_diameter(T)[i] is 0.88 * sigma_t(T)[i] for
\* every ionic component, whatever its epsilon_k, and the generic correction
\* sigma_t * (1 - 0.12 exp(-3 epsilon_k / T)) for every other component.
C11_IonicDiameter ==
    (pc = "built" /\ IsSome(query) /\ Unwrap(query).fn = "hs_diameter") =>
        LET T == Unwrap(query).temperature
            sigma_t == SigmaT(Unwrap(params), T)
        IN  \A i \in DOMAIN pure_records :
                Unwrap(query).value[i] =
                    IF InputIonic(i)
                    THEN (88 * sigma_t[i]) \div 100
                    ELSE ((ONE - (12 * ExpNeg((3 * pure_records[i].model_record.epsilon_k)
                                                \div T)) \div 100) * sigma_t[i]) \div ONE

\* C11 witness: the diameters of a solvent followed by an ion
C11_Witness ==
    /\ pc = "built" /\ IsSome(query) /\ Unwrap(query).fn = "hs_diameter"
    /\ ALen(pure_records) = 2
    /\ ~InputIonic(0) /\ InputIonic(1)
    /\ Unwrap(query).value[1] # Unwrap(query).value[0]

\* C13: a single pure record with only m, sigma and epsilon_k builds, and the
\* set has mu2[0] = 0, q2[0] = 0, ndipole = nquadpole = nionic = 0, nsolvent = 1,
\* empty dipole_comp and quadpole_comp, solvent_comp = [0], no association
\* sites and no permittivity.
C13_NonPolarDefaults ==
    (pc # "input" /\ ALen(pure_records) = 1 /\ IsNone(binary_records)
        /\ OnlyRequired(pure_records[0].model_record)) =>
        /\ pc = "built"
        /\ LET p == Unwrap(params)
           IN  /\ p.mu2[0] = 0 /\ p.q2[0] = 0
               /\ p.ndipole = 0 /\ p.nquadpole = 0
               /\ p.nionic = 0 /\ p.nsolvent = 1
               /\ p.dipole_comp = << >> /\ p.quadpole_comp = << >>
               /\ p.ionic_comp = << >>
               /\ p.solvent_comp = [k \in {0} |-> 0]
               /\ \A i \in DOMAIN p.association.records : p.association.records[i] = << >>
               /\ p.association.binary = << >>
               /\ IsNone(p.permittivity)

\* C13 witness: from_records has run on one record without optional fields
C13_Witness ==
    /\ pc = "built" /\ ALen(pure_records) = 1
    /\ OnlyRequired(pure_records[0].model_record)
    /\ Unwrap(params).m[0] = PlainModelRecord.m

\* C14: sigma_ij and e_k_ij are n x n and symmetric, their diagonals are sigma
\* and epsilon_k, sigma_ij is the arithmetic mean of the two diameters and
\* e_k_ij the geometric mean of the two energies (to the two decimals of the
\* product).
C14_CombiningRules ==
    pc = "built" =>
        LET p == Unwrap(params)
            n == ALen(pure_records)
            sigma(i) == pure_records[i].model_record.sigma
            epsilon_k(i) == pure_records[i].model_record.epsilon_k
        IN  /\ p.sigma_ij.dim = <<n, n>> /\ p.e_k_ij.dim = <<n, n>>
            /\ DOMAIN p.sigma_ij.at = (0..(n - 1)) \X (0..(n - 1))
            /\ DOMAIN p.e_k_ij.at = (0..(n - 1)) \X (0..(n - 1))
            /\ \A i \in 0..(n - 1) :
                /\ p.sigma_ij.at[<<i, i>>] = sigma(i)
                /\ p.e_k_ij.at[<<i, i>>] = epsilon_k(i)
            /\ \A i, j \in 0..(n - 1) :
                /\ p.sigma_ij.at[<<i, j>>] = p.sigma_ij.at[<<j, i>>]
                /\ p.e_k_ij.at[<<i, j>>] = p.e_k_ij.at[<<j, i>>]
                /\ 2 * p.sigma_ij.at[<<i, j>>] = sigma(i) + sigma(j)
                /\ LET e == p.e_k_ij.at[<<i, j>>] \div 100
                       prod == (epsilon_k(i) \div 100) * (epsilon_k(j) \div 100)
                   IN  e * e <= prod /\ prod < (e + 1) * (e + 1)

\* C14 witness: two components of different diameters and energies, whose
\* geometric and arithmetic mean energies differ
C14_Witness ==
    /\ pc = "built" /\ ALen(pure_records) = 2
    /\ pure_records[0].model_record.sigma # pure_records[1].model_record.sigma
    /\ pure_records[0].model_record.epsilon_k # pure_records[1].model_record.epsilon_k
    /\ Unwrap(params).e_k_ij.at[<<0, 1>>] * 2 #
            pure_records[0].model_record.epsilon_k + pure_records[1].model_record.epsilon_k

\* C15: for every temperature and every component listed in sigma_t_comp (its
\* name contains the marker), sigma_t(T)[i] is sigma[i] plus the correction
\* 10.11 exp(-0.01775 T) - 1.417 exp(-0.01146 T), and the correction is applied
\* to exactly those components, whatever their position.
C15_FlaggedCorrected ==
    (pc = "built" /\ IsSome(query) /\ Unwrap(query).fn = "sigma_t") =>
        LET T == Unwrap(query).temperature
            listed == Elements(Unwrap(params).sigma_t_comp)
        IN  /\ listed = {i \in DOMAIN pure_records :
                    Contains(UnwrapOr(pure_records[i].identifier.name, <<"unknown">>),
                             "sigma_t")}
            /\ \A i \in DOMAIN pure_records :
                Unwrap(query).value[i] - pure_records[i].model_record.sigma =
                    IF i \in listed THEN SigmaTCorrection(T) ELSE 0

\* C16: every k_ij[i][j] of a built set has 4 entries; without a binary matrix
\* all are zero; with one, every pair that is not the self-pair of an ionic
\* component holds the user's coefficients followed by zeros.
C16_KijEntries ==
    pc = "built" =>
        LET p == Unwrap(params)
            n == ALen(pure_records)
        IN  /\ DOMAIN p.k_ij.at = (0..(n - 1)) \X (0..(n - 1))
            /\ \A ij \in DOMAIN p.k_ij.at :
                /\ DOMAIN p.k_ij.at[ij] = 0..3
                /\ IsNone(binary_records) => \A k \in 0..3 : p.k_ij.at[ij][k] = 0
                /\ (IsSome(binary_records) /\ ~(ij[1] = ij[2] /\ InputIonic(ij[1]))) =>
                    LET user == Unwrap(binary_records).at[ij].k_ij
                    IN  \A k \in 0..3 :
                            p.k_ij.at[ij][k] = IF k < ALen(user) THEN user[k] ELSE 0

\* C16 witness: a built set with an ion in which the user's two coefficients
\* for the self-pair of a non-ionic component are kept
C16_Witness ==
    /\ pc = "built" /\ IsSome(binary_records)
    /\ \E i \in DOMAIN pure_records : InputIonic(i)
    /\ \E i \in DOMAIN pure_records :
        /\ ~InputIonic(i)
        /\ ALen(Unwrap(binary_records).at[<<i, i>>].k_ij) = 2
        /\ Unwrap(params).k_ij.at[<<i, i>>][1] # 0

\* C17: in every built set dipole_comp and quadpole_comp hold exactly the
\* indices with nonzero mu2 and q2, ascending and without duplicates, ndipole
\* and nquadpole are their lengths, and a component whose mu (q) is missing or
\* zero is not listed.
C17_PolarIndexLists ==
    pc = "built" =>
        LET p == Unwrap(params)
            ascending(a) == \A k, l \in DOMAIN a : k < l => a[k] < a[l]
        IN  /\ Elements(p.dipole_comp) = {i \in DOMAIN pure_records : p.mu2[i] # 0}
            /\ Elements(p.quadpole_comp) = {i \in DOMAIN pure_records : p.q2[i] # 0}
            /\ ascending(p.dipole_comp) /\ ascending(p.quadpole_comp)
            /\ DOMAIN p.dipole_comp = 0..(p.ndipole - 1)
            /\ DOMAIN p.quadpole_comp = 0..(p.nquadpole - 1)
            /\ \A i \in DOMAIN pure_records :
                /\ UnwrapOr(pure_records[i].model_record.mu, 0) = 0
                        => i \notin Elements(p.dipole_comp)
                /\ UnwrapOr(pure_records[i].model_record.q, 0) = 0
                        => i \notin Elements(p.quadpole_comp)

\* C17 witness: a quadrupolar component without a dipole moment followed by a
\* dipolar component with a zero quadrupole moment
C17_Witness ==
    /\ pc = "built" /\ ALen(pure_records) = 2
    /\ IsNone(pure_records[0].model_record.mu)
    /\ pure_records[1].model_record.q = Some(0)
    /\ Unwrap(params).dipole_comp = [k \in {0} |-> 1]
    /\ Unwrap(params).quadpole_comp = [k \in {0} |-> 0]

\* C19: to_markdown writes one data row for each component, in component
\* order, and every data row has as many cells as the header has columns.
C19_RowsMatchHeader ==
    (pc = "built" /\ IsSome(query) /\ Unwrap(query).fn = "to_markdown") =>
        LET lines == Unwrap(query).value
            n == ALen(pure_records)
        IN  /\ Len(lines) = n + 2
            /\ \A i \in 0..(n - 1) :
                /\ lines[i + 3][1] =
                        UnwrapOr(pure_records[i].identifier.name, <<"Component", i + 1>>)
                /\ Len(lines[i + 3]) = Len(lines[1])

\* C20: Display of a binary record built by new, TryFrom<f64> or Default
\* completes without a panic, whatever the length of k_ij.
C20_DisplayCompletes ==
    pc = "displayed" => IsNone(panic) /\ IsSome(text)

\* C12 as stated: a permuted segment list aggregates to the same record, and
\* aggregating the first entries into one record and that record (count 1)
\* with the rest gives the same m, sigma^3-weighted sum, epsilon_k, mu, q, z,
\* association sums and entropy-scaling coefficients as the whole list.
C12_Associative ==
    pc = "aggregated" =>
        LET segs == Unwrap(segments)
            direct == Unwrap(aggregated)
        IN  /\ \A i, j \in DOMAIN segs :
                i < j => FromSegments(Swapped(segs, i, j)) = direct
            /\ \A len \in 2..(ALen(segs) - 1) :
                LET nested == Nested(segs, len)
                IN  /\ SameTotals(nested, direct)
                    /\ SameCoefficients(nested.viscosity, direct.viscosity)
                    /\ SameCoefficients(nested.thermal_conductivity,
                                        direct.thermal_conductivity)
                    /\ SameCoefficients(nested.diffusion, direct.diffusion)

\* C12 amended: a permuted segment list aggregates to the same record, and the
\* nested aggregation gives the same m, sigma^3-weighted sum, epsilon_k, mu,
\* q, z and association sums, the same presence of each entropy-scaling
\* coefficient set, and the same count-weighted coefficients (viscosity 2 and
\* 3, thermal conductivity 0 to 2).
C12_OrderAndTotals ==
    pc = "aggregated" =>
        LET segs == Unwrap(segments)
            direct == Unwrap(aggregated)
        IN  /\ \A i, j \in DOMAIN segs :
                i < j => FromSegments(Swapped(segs, i, j)) = direct
            /\ \A len \in 2..(ALen(segs) - 1) :
                LET nested == Nested(segs, len)
                IN  /\ SameTotals(nested, direct)
                    /\ IsSome(nested.viscosity) <=> IsSome(direct.viscosity)
                    /\ IsSome(nested.thermal_conductivity)
                            <=> IsSome(direct.thermal_conductivity)
                    /\ nested.diffusion = direct.diffusion
                    /\ IsSome(direct.viscosity) =>
                        \A r \in {2, 3} :
                            Unwrap(nested.viscosity)[r] = Unwrap(direct.viscosity)[r]
                    /\ IsSome(direct.thermal_conductivity) =>
                        \A r \in 0..2 :
                            Unwrap(nested.thermal_conductivity)[r]
                                = Unwrap(direct.thermal_conductivity)[r]

\* C12 witness: three different segments with coefficients, one of them polar,
\* whose nested aggregation has other viscosity and thermal-conductivity
\* coefficients than the direct one
C12_Witness ==
    /\ pc = "aggregated"
    /\ ALen(Unwrap(segments)) = 3
    /\ \A i, j \in 0..2 : i # j => Unwrap(segments)[i][1] # Unwrap(segments)[j][1]
    /\ IsSome(Unwrap(aggregated).mu)
    /\ IsSome(Unwrap(aggregated).viscosity)
    /\ ~Close(Unwrap(Nested(Unwrap(segments), 2).viscosity)[0],
              Unwrap(Unwrap(aggregated).viscosity)[0])
    /\ Unwrap(Nested(Unwrap(segments), 2).thermal_conductivity)[3]
            # Unwrap(Unwrap(aggregated).thermal_conductivity)[3]

\* C18: replacing an entry (s, n) of the segment list by n entries (s, 1)
\* gives the same aggregated m, sigma, epsilon_k, mu, q, z and association sums.
C18_CountWeighted ==
    pc = "aggregated" =>
        \A k \in DOMAIN Unwrap(segments) :
            LET repeated == FromSegments(Repeated(Unwrap(segments), k))
                direct == Unwrap(aggregated)
            IN  /\ repeated.m = direct.m
                /\ repeated.sigma = direct.sigma
                /\ repeated.epsilon_k = direct.epsilon_k
                /\ repeated.mu = direct.mu
                /\ repeated.q = direct.q
                /\ repeated.z = direct.z
                /\ repeated.association_record = direct.association_record

\* C21: the aggregated record's diffusion set is five zeros, whatever the
\* segments' diffusion values, when every segment supplies diffusion
\* coefficients, and is absent when some segment lacks them.
C21_DiffusionZeros ==
    pc = "aggregated" =>
        LET segs == Unwrap(segments)
            every == \A k \in DOMAIN segs : IsSome(segs[k][1].diffusion)
        IN  /\ every => Unwrap(aggregated).diffusion = Some([r \in 0..4 |-> 0])
            /\ ~every => IsNone(Unwrap(aggregated).diffusion)

\* C21 witness: two segments with different nonzero diffusion coefficients
\* have been aggregated
C21_Witness ==
    /\ pc = "aggregated"
    /\ ALen(Unwrap(segments)) = 2
    /\ IsSome(Unwrap(segments)[0][1].diffusion)
    /\ IsSome(Unwrap(segments)[1][1].diffusion)
    /\ Unwrap(segments)[0][1].diffusion # Unwrap(segments)[1][1].diffusion
    /\ \A r \in 0..4 : Unwrap(Unwrap(segments)[0][1].diffusion)[r] # 0
    /\ IsSome(Unwrap(aggregated).diffusion)

=============================================================================
